---- MODULE Spec2Model ----
(***************************************************************************)
(* A model of the fuzzy inference engine of src/code_1.py: the classes     *)
(* FuzzySet, Variable and FuzzySystem, and FuzzySystem.run_simulation      *)
(* taken one loop iteration at a time.                                     *)
(*                                                                         *)
(* Numbers.  Every number of a run (a degree, a centroid, a result) is a   *)
(* rational <<n, d>> with d > 0 in lowest terms; Python's float division   *)
(* is modelled by exact division, so rounding is outside the model.        *)
(* Python's None is the pair NoneVal.                                      *)
(*                                                                         *)
(* Dictionaries.  A Python dict whose iteration order decides an outcome   *)
(* is a sequence of <<key, value>> pairs in insertion order; the dict      *)
(* self.variables, which run_simulation only reads by key, is a function.  *)
(***************************************************************************)
EXTENDS Integers, Sequences, FiniteSets

\* ------------------------------------------------------------------ bounds

\* Parameters of the fuzzy sets drawn by InitFuzzify range over 0..MaxVal.
MaxVal == 3

\* At most MaxRules rules are appended to one system.
MaxRules == 2

\* ------------------------------------------------------------ rationals

Abs(n) == IF n < 0 THEN 0 - n ELSE n

RECURSIVE GCD(_, _)
GCD(a, b) == IF b = 0 THEN a ELSE GCD(b, a % b)

\* The rational n/d (d # 0) in lowest terms with a positive denominator.
Norm(n, d) ==
    LET g == GCD(Abs(n), Abs(d))
        s == IF d < 0 THEN 0 - 1 ELSE 1
    IN  << (s * n) \div g, (s * d) \div g >>

Zero == Norm(0, 1)
One == Norm(1, 1)
NoneVal == << 0, 0 >>

RLe(p, q) == p[1] * q[2] <= q[1] * p[2]
RLt(p, q) == p[1] * q[2] < q[1] * p[2]
RAdd(p, q) == Norm(p[1] * q[2] + q[1] * p[2], p[2] * q[2])
RSub(p, q) == Norm(p[1] * q[2] - q[1] * p[2], p[2] * q[2])
RMul(p, q) == Norm(p[1] * q[1], p[2] * q[2])
RDiv(p, q) == Norm(p[1] * q[2], p[2] * q[1])

\* Python's min(a, b) and max(a, b): the first argument wins a tie.
PyMin(a, b) == IF RLt(b, a) THEN b ELSE a
PyMax(a, b) == IF RLt(a, b) THEN b ELSE a

\* ------------------------------------------------------- ordered dicts

Keys(od) == { od[j][1] : j \in DOMAIN od }
Has(od, key) == key \in Keys(od)
Get(od, key) == od[CHOOSE j \in DOMAIN od : od[j][1] = key][2]
\* dict.get(key, default)
GetOr(od, key, default) == IF Has(od, key) THEN Get(od, key) ELSE default
\* d[key] = value: an existing key keeps its position.
Put(od, key, value) ==
    IF Has(od, key)
    THEN [ j \in DOMAIN od |-> IF od[j][1] = key THEN << key, value >> ELSE od[j] ]
    ELSE Append(od, << key, value >>)

\* ------------------------------------------------------------- results

Ok(v) == [ kind |-> "ok", v |-> v, exc |-> "" ]
Raise(e) == [ kind |-> "raise", v |-> NoneVal, exc |-> e ]

\* str.upper() on the type tokens the model uses.
Upper(s) ==
    CASE s = "tri" -> "TRI"
      [] s = "trap" -> "TRAP"
      [] s = "in" -> "IN"
      [] s = "out" -> "OUT"
      [] OTHER -> s

\* ------------------------------------------------------------ FuzzySet

\* FuzzySet.__init__: the type is upper-cased, the values are stored as given.
FuzzySet(name, type_, values) ==
    [ name |-> name, type |-> Upper(type_), values |-> values ]

\* n / d: ZeroDivisionError when d = 0.
Div(n, d) ==
    IF d = 0 THEN Raise("ZeroDivisionError") ELSE Ok(Norm(n, d))

\* The TRI branch of FuzzySet.fuzzify, after a, b, c = self.values.
FuzzifyTri(v, x) ==
    LET a == v[1]
        b == v[2]
        c == v[3]
    IN  IF a <= x /\ x <= b THEN Div(x - a, b - a)
        ELSE IF b <= x /\ x <= c THEN Div(c - x, c - b)
        ELSE Ok(Zero)

\* The TRAP branch of FuzzySet.fuzzify, after a, b, c, d = self.values.
FuzzifyTrap(v, x) ==
    LET a == v[1]
        b == v[2]
        c == v[3]
        d == v[4]
    IN  IF a <= x /\ x <= b THEN Div(x - a, b - a)
        ELSE IF b <= x /\ x <= c THEN Ok(One)
        ELSE IF c <= x /\ x <= d THEN Div(d - x, d - c)
        ELSE Ok(Zero)

\* FuzzySet.fuzzify: unpacking the values raises ValueError when their count
\* is not the shape's; a type that is neither TRI nor TRAP falls off the end
\* of the function, which returns None.
fuzzify(fs, crisp_value) ==
    IF fs.type = "TRI"
    THEN IF Len(fs.values) # 3 THEN Raise("ValueError")
         ELSE FuzzifyTri(fs.values, crisp_value)
    ELSE IF fs.type = "TRAP"
    THEN IF Len(fs.values) # 4 THEN Raise("ValueError")
         ELSE FuzzifyTrap(fs.values, crisp_value)
    ELSE Ok(NoneVal)

\* ------------------------------------------------------------ Variable

\* Variable.__init__
Variable(name, var_type, range_) ==
    [ name |-> name, type |-> Upper(var_type), range |-> range_,
      fuzzy_sets |-> << >> ]

\* Variable.add_fuzzy_set: self.fuzzy_sets[fuzzy_set.name] = fuzzy_set
WithFuzzySet(variable, fuzzy_set) ==
    [ variable EXCEPT !.fuzzy_sets = Put(@, fuzzy_set.name, fuzzy_set) ]

\* ---------------------------------------------------------------- state

VARIABLES
    variables,          \* FuzzySystem.variables: name -> Variable
    rules,              \* FuzzySystem.rules: sequence of (in_vars, out_var, out_set)
    pc,                 \* where run_simulation stands: idle, fuzzify, rule, done
    crisp_values,       \* the argument of the run, in insertion order
    i,                  \* index of the next entry of crisp_values
    fuzzified_values,   \* var_name -> (fs_name -> degree)
    r,                  \* index of the rule being evaluated
    k,                  \* index of the next clause of that rule
    min_degree,         \* the accumulator of the rule being evaluated
    inferred_outputs,   \* out_var -> (out_set -> degree)
    results,            \* the mapping run_simulation returns
    outcome,            \* "", "return", "undefined_variable" or the exception raised
    printed             \* the kinds of message the run has printed

vars == << variables, rules, pc, crisp_values, i, fuzzified_values, r, k,
           min_degree, inferred_outputs, results, outcome, printed >>

model == << variables, rules >>
locals == << crisp_values, i, fuzzified_values, r, k, min_degree,
             inferred_outputs, results, outcome, printed >>

\* ------------------------------------------------- what the caller supplies

\* The variables the caller declares.
VariableDecls ==
    { Variable("temp", "in", << 0, 4 >>), Variable("risk", "OUT", << 0, 6 >>) }

\* The fuzzy sets the caller adds, each with the variable it is added to.
\* The first has the shoulder a = b of the sets of load_test_case, the second
\* has two values for a three-value shape, and BELL is a type fuzzify does not
\* know.
FuzzySetDecls ==
    { << "temp", FuzzySet("low", "trap", << 0, 0, 2, 4 >>) >>,
      << "temp", FuzzySet("low", "TRI", << 0, 2 >>) >>,
      << "temp", FuzzySet("high", "TRI", << 2, 4, 4 >>) >>,
      << "temp", FuzzySet("high", "BELL", << 1, 3 >>) >>,
      << "risk", FuzzySet("low", "TRI", << 0, 1, 2 >>) >>,
      << "risk", FuzzySet("high", "TRI", << 2, 3, 6 >>) >> }

Rule(in_vars, out_var, out_set) ==
    [ in_vars |-> in_vars, out_var |-> out_var, out_set |-> out_set ]

\* The rules the caller adds.
RuleDecls ==
    { Rule(<< << "temp", "high", "or" >>, << "temp", "low", "and_not" >> >>,
           "risk", "low"),
      Rule(<< << "temp", "low", "and" >>, << "temp", "high", "xor" >> >>,
           "risk", "high"),
      Rule(<< << "temp", "mid", "and" >> >>, "risk", "low"),
      Rule(<< << "temp", "high", "and" >> >>, "risk", "high") }

\* The crisp-value mappings the caller runs: "ghost" is never declared.
CrispInputs ==
    { << >> }
    \cup { << << "temp", x >> >> : x \in { 0, 1, 3 } }
    \cup { << << "ghost", 1 >> >> }
    \cup { << << "temp", x >>, << "ghost", 1 >> >> : x \in { 0, 1, 3 } }
    \cup { << << "ghost", 1 >>, << "temp", x >> >> : x \in { 0, 1, 3 } }

\* ------------------------------------------------------------------ Init

Resting ==
    /\ crisp_values = << >>
    /\ i = 1
    /\ fuzzified_values = << >>
    /\ r = 1
    /\ k = 1
    /\ min_degree = One
    /\ inferred_outputs = << >>
    /\ results = << >>
    /\ outcome = ""
    /\ printed = { }

\* FuzzySystem.__init__
Init ==
    /\ variables = << >>
    /\ rules = << >>
    /\ pc = "idle"
    /\ Resting

\* ---------------------------------------------------------- construction

\* FuzzySystem.add_variable
add_variable(variable) ==
    /\ pc = "idle"
    /\ variables' = [ n \in DOMAIN variables \cup { variable.name } |->
                        IF n = variable.name THEN variable ELSE variables[n] ]
    /\ UNCHANGED << rules, pc, locals >>

\* Variable.add_fuzzy_set on a variable of the system
add_fuzzy_set(var_name, fuzzy_set) ==
    /\ pc = "idle"
    /\ var_name \in DOMAIN variables
    /\ variables' = [ variables EXCEPT ![var_name] = WithFuzzySet(@, fuzzy_set) ]
    /\ UNCHANGED << rules, pc, locals >>

\* FuzzySystem.add_rule
add_rule(rule) ==
    /\ pc = "idle"
    /\ Len(rules) < MaxRules
    /\ rules' = Append(rules, rule)
    /\ UNCHANGED << variables, pc, locals >>

\* ------------------------------------------------- run_simulation: helpers

\* The dict comprehension {fs_name: fs.fuzzify(crisp_value) for ...}: the sets
\* are taken in insertion order and the first exception ends it.
RECURSIVE FuzzifyAll(_, _)
FuzzifyAll(fuzzy_sets, crisp_value) ==
    IF fuzzy_sets = << >> THEN Ok(<< >>)
    ELSE LET first == fuzzify(fuzzy_sets[1][2], crisp_value)
             rest == FuzzifyAll(Tail(fuzzy_sets), crisp_value)
         IN  IF first.kind = "raise" THEN first
             ELSE IF rest.kind = "raise" THEN rest
             ELSE Ok(<< << fuzzy_sets[1][1], first.v >> >> \o rest.v)

KnownOperators == { "and", "or", "and_not" }

\* combine with the branch of "or" taking the minimum, as the branch of "and".
combineMutant(acc, degree, operator) ==
    IF operator = "and_not" THEN PyMin(acc, RSub(One, degree))
    ELSE PyMin(acc, degree)

\* One pass of the if/elif chain over the operator of a clause.
combine(acc, degree, operator) ==
    IF operator = "and" THEN PyMin(acc, degree)
    ELSE IF operator = "or" THEN PyMax(acc, degree)
    ELSE IF operator = "and_not" THEN PyMin(acc, RSub(One, degree))
    ELSE PyMin(acc, degree)

\* AggregatedDegree with the rule's strength overwriting the stored degree.
AggregatedDegreeMutant(output, out_set, degree) == degree

\* max(inferred_outputs[out_var].get(out_set, 0), min_degree)
AggregatedDegree(output, out_set, degree) ==
    PyMax(GetOr(output, out_set, Zero), degree)

\* The update of inferred_outputs by one rule of firing strength degree.
Aggregate(inferred, out_var, out_set, degree) ==
    LET output == GetOr(inferred, out_var, << >>)
    IN  Put(inferred, out_var,
            Put(output, out_set, AggregatedDegree(output, out_set, degree)))

RECURSIVE Sum(_)
Sum(values) == IF values = << >> THEN 0 ELSE values[1] + Sum(Tail(values))

\* sum(fs.values) / len(fs.values)
Centroid(fs) == Div(Sum(fs.values), Len(fs.values))

\* AccumulateTerm with the denominator counting the sets: denominator += 1.
AccumulateTermMutant(acc, degree, centroid) ==
    << RAdd(acc[1], RMul(degree, centroid)), RAdd(acc[2], One) >>

\* numerator += degree * centroid; denominator += degree
AccumulateTerm(acc, degree, centroid) ==
    << RAdd(acc[1], RMul(degree, centroid)), RAdd(acc[2], degree) >>

\* The loop over output.items() of one output variable.  No degree of the
\* model is infinite, so the test that skips infinite degrees never succeeds.
RECURSIVE Accumulate(_, _, _)
Accumulate(fuzzy_sets, output, acc) ==
    IF output = << >> THEN Ok(acc)
    ELSE LET set_name == output[1][1]
             degree == output[1][2]
         IN  IF ~Has(fuzzy_sets, set_name) THEN Raise("KeyError")
             ELSE LET centroid == Centroid(Get(fuzzy_sets, set_name))
                  IN  IF centroid.kind = "raise" THEN centroid
                      ELSE Accumulate(fuzzy_sets, Tail(output),
                                      AccumulateTerm(acc, degree, centroid.v))

\* CrispResult without the division: numerator if denominator > 0 else 0.
CrispResultMutant(numerator, denominator) ==
    IF RLt(Zero, denominator) THEN numerator ELSE Zero

\* numerator / denominator if denominator > 0 else 0
CrispResult(numerator, denominator) ==
    IF RLt(Zero, denominator) THEN RDiv(numerator, denominator) ELSE Zero

\* One pass of the loop over inferred_outputs.items().
DefuzzifyVariable(vs, var_name, output) ==
    IF var_name \notin DOMAIN vs THEN Raise("KeyError")
    ELSE LET acc == Accumulate(vs[var_name].fuzzy_sets, output, << Zero, Zero >>)
         IN  IF acc.kind = "raise" THEN acc
             ELSE Ok(CrispResult(acc.v[1], acc.v[2]))

\* The whole defuzzification loop, in the insertion order of inferred_outputs.
RECURSIVE Defuzzify(_, _)
Defuzzify(vs, inferred) ==
    IF inferred = << >> THEN Ok(<< >>)
    ELSE LET first == DefuzzifyVariable(vs, inferred[1][1], inferred[1][2])
             rest == Defuzzify(vs, Tail(inferred))
         IN  IF first.kind = "raise" THEN first
             ELSE IF rest.kind = "raise" THEN rest
             ELSE Ok(<< << inferred[1][1], first.v >> >> \o rest.v)

\* ------------------------------------------------- run_simulation: steps

\* The call: fuzzified_values = {} and the first loop begins.
run_simulation(crisp) ==
    /\ pc = "idle"
    /\ crisp_values' = crisp
    /\ pc' = IF crisp = << >> THEN "rule" ELSE "fuzzify"
    /\ UNCHANGED << model, i, fuzzified_values, r, k, min_degree,
                    inferred_outputs, results, outcome, printed >>

\* One pass of the loop over crisp_values.items().
FuzzifyStep ==
    /\ pc = "fuzzify"
    /\ LET var_name == crisp_values[i][1]
           crisp_value == crisp_values[i][2]
       IN  IF var_name \notin DOMAIN variables
           THEN /\ printed' = printed \cup { "undefined_variable" }
                /\ outcome' = "undefined_variable"
                /\ pc' = "done"
                /\ UNCHANGED << i, fuzzified_values >>
           ELSE LET fz == FuzzifyAll(variables[var_name].fuzzy_sets, crisp_value)
                IN  IF fz.kind = "raise"
                    THEN /\ outcome' = fz.exc
                         /\ pc' = "done"
                         /\ UNCHANGED << i, fuzzified_values, printed >>
                    ELSE /\ fuzzified_values' = Put(fuzzified_values, var_name, fz.v)
                         /\ i' = i + 1
                         /\ pc' = IF i = Len(crisp_values) THEN "rule" ELSE "fuzzify"
                         /\ UNCHANGED << outcome, printed >>
    /\ UNCHANGED << model, crisp_values, r, k, min_degree, inferred_outputs, results >>

\* One pass of the loop over the clauses of rule r.
ClauseStep ==
    /\ pc = "rule"
    /\ r <= Len(rules)
    /\ k <= Len(rules[r].in_vars)
    /\ LET var_name == rules[r].in_vars[k][1]
           set_name == rules[r].in_vars[k][2]
           operator == rules[r].in_vars[k][3]
           said == IF operator \in KnownOperators THEN printed
                   ELSE printed \cup { "unknown_operator" }
       IN  IF ~Has(fuzzified_values, var_name)
           THEN /\ outcome' = "KeyError"
                /\ pc' = "done"
                /\ UNCHANGED << k, min_degree, printed >>
           ELSE LET degree == GetOr(Get(fuzzified_values, var_name), set_name, Zero)
                IN  IF degree = NoneVal
                    THEN /\ outcome' = "TypeError"
                         /\ pc' = "done"
                         /\ printed' = said
                         /\ UNCHANGED << k, min_degree >>
                    ELSE /\ min_degree' = combine(min_degree, degree, operator)
                         /\ k' = k + 1
                         /\ printed' = said
                         /\ UNCHANGED << outcome, pc >>
    /\ UNCHANGED << model, crisp_values, i, fuzzified_values, r, inferred_outputs,
                    results >>

\* AggregateStep with the loop consuming the rules: rule = self.rules.pop(0).
AggregateStepMutant ==
    /\ pc = "rule"
    /\ r <= Len(rules)
    /\ k > Len(rules[r].in_vars)
    /\ inferred_outputs' = Aggregate(inferred_outputs, rules[r].out_var,
                                     rules[r].out_set, min_degree)
    /\ rules' = Tail(rules)
    /\ k' = 1
    /\ min_degree' = One
    /\ UNCHANGED << variables, r, pc, crisp_values, i, fuzzified_values, results,
                    outcome, printed >>

\* The end of one pass of the loop over self.rules: the rule's firing strength
\* is merged into inferred_outputs, and min_degree = 1 opens the next pass.
AggregateStep ==
    /\ pc = "rule"
    /\ r <= Len(rules)
    /\ k > Len(rules[r].in_vars)
    /\ inferred_outputs' = Aggregate(inferred_outputs, rules[r].out_var,
                                     rules[r].out_set, min_degree)
    /\ r' = r + 1
    /\ k' = 1
    /\ min_degree' = One
    /\ UNCHANGED << model, pc, crisp_values, i, fuzzified_values, results, outcome,
                    printed >>

\* The defuzzification loop and return results.
DefuzzifyStep ==
    /\ pc = "rule"
    /\ r > Len(rules)
    /\ LET dz == Defuzzify(variables, inferred_outputs)
       IN  IF dz.kind = "raise"
           THEN /\ outcome' = dz.exc
                /\ UNCHANGED results
           ELSE /\ outcome' = "return"
                /\ results' = dz.v
    /\ pc' = "done"
    /\ UNCHANGED << model, crisp_values, i, fuzzified_values, r, k, min_degree,
                    inferred_outputs, printed >>

\* The caller has the outcome; the locals of the call are gone.
Return ==
    /\ pc = "done"
    /\ pc' = "idle"
    /\ crisp_values' = << >>
    /\ i' = 1
    /\ fuzzified_values' = << >>
    /\ r' = 1
    /\ k' = 1
    /\ min_degree' = One
    /\ inferred_outputs' = << >>
    /\ results' = << >>
    /\ outcome' = ""
    /\ printed' = { }
    /\ UNCHANGED model

\* ------------------------------------------------------- specifications

Run ==
    \/ FuzzifyStep
    \/ ClauseStep
    \/ AggregateStep
    \/ DefuzzifyStep
    \/ Return

Next ==
    \/ \E variable \in VariableDecls : add_variable(variable)
    \/ \E decl \in FuzzySetDecls : add_fuzzy_set(decl[1], decl[2])
    \/ \E rule \in RuleDecls : add_rule(rule)
    \/ \E crisp \in CrispInputs : run_simulation(crisp)
    \/ Run

Spec == Init /\ [][Next]_vars

\* A system with one fuzzy set of every type and every parameter list over
\* 0..MaxVal, of three or four values, as the construction calls (which check
\* nothing) can build it.
FuzzifyTypes == { "TRI", "TRAP" }
FuzzifyValues == [ 1 .. 3 -> 0 .. MaxVal ] \cup [ 1 .. 4 -> 0 .. MaxVal ]

InitFuzzify ==
    /\ \E type_ \in FuzzifyTypes, values \in FuzzifyValues :
         variables =
           [ n \in { "temp", "risk" } |->
               IF n = "temp"
               THEN WithFuzzySet(Variable("temp", "IN", << 0, MaxVal >>),
                                 FuzzySet("low", type_, values))
               ELSE WithFuzzySet(Variable("risk", "OUT", << 0, 6 >>),
                                 FuzzySet("low", "TRI", << 0, 1, 2 >>)) ]
    /\ rules = << Rule(<< << "temp", "low", "and" >> >>, "risk", "low") >>
    /\ pc = "idle"
    /\ Resting

FuzzifyInputs == { << << "temp", x >> >> : x \in (0 - 1) .. (MaxVal + 1) }

NextFuzzify ==
    \/ \E crisp \in FuzzifyInputs : run_simulation(crisp)
    \/ Run

SpecFuzzify == InitFuzzify /\ [][NextFuzzify]_vars

\* ---------------------------------------------------------------- claims

\* Every entry of crisp_values has been fuzzified.
FuzzificationSucceeded ==
    /\ pc \in { "rule", "done" }
    /\ i > Len(crisp_values)

\* Every rule has been evaluated and merged into inferred_outputs.
InferenceComplete ==
    /\ FuzzificationSucceeded
    /\ r > Len(rules)

RMin(p, q) == IF RLe(p, q) THEN p ELSE q
RMax(p, q) == IF RLe(p, q) THEN q ELSE p

\* The parameters are those the data model allows for the shape.
ValidParameters(fs) ==
    \/ /\ fs.type = "TRI"
       /\ Len(fs.values) = 3
       /\ fs.values[1] <= fs.values[2] /\ fs.values[2] <= fs.values[3]
    \/ /\ fs.type = "TRAP"
       /\ Len(fs.values) = 4
       /\ fs.values[1] <= fs.values[2] /\ fs.values[2] <= fs.values[3]
       /\ fs.values[3] <= fs.values[4]

\* C1: once every supplied name was a known variable and fuzzification has
\* succeeded, the run returns a results mapping, whatever the rules refer to.
RunNeverFailsAfterFuzzification ==
    (pc = "done" /\ FuzzificationSucceeded) => outcome = "return"

\* C2: a run whose crisp values hold a name that is no variable of the system
\* ends with the undefined-variable outcome and no results, wherever the name
\* stands among the inputs.  Stated for the systems all of whose fuzzy sets
\* have valid parameters.
UnknownNameAbortsRun ==
    ( /\ pc = "done"
      /\ \E j \in DOMAIN crisp_values : crisp_values[j][1] \notin DOMAIN variables
      /\ \A n \in DOMAIN variables :
           \A j \in DOMAIN variables[n].fuzzy_sets :
             ValidParameters(variables[n].fuzzy_sets[j][2]) )
    => (outcome = "undefined_variable" /\ results = << >>)

\* The degree of a clause as the claim gives it: the fuzzified degree of
\* (variable, set), or 0 when the set is not defined on the variable.
ClauseDegree(clause) ==
    LET degrees == Get(fuzzified_values, clause[1])
    IN  IF Has(degrees, clause[2]) THEN Get(degrees, clause[2]) ELSE Zero

\* The step of the fold as the claim gives it.
FoldStep(acc, d, operator) ==
    CASE operator = "and" -> RMin(acc, d)
      [] operator = "or" -> RMax(acc, d)
      [] operator = "and_not" -> RMin(acc, RSub(One, d))
      [] OTHER -> RMin(acc, d)

\* The left fold over the first n clauses, from accumulator 1.
RECURSIVE LeftFold(_, _)
LeftFold(clauses, n) ==
    IF n = 0 THEN One
    ELSE FoldStep(LeftFold(clauses, n - 1), ClauseDegree(clauses[n]), clauses[n][3])

\* C3: while a rule is evaluated the accumulator is the left fold, from 1, over
\* the clauses taken so far, with min for and, max for or, min with 1 - d for
\* and_not and min for any other operator; after a first clause with or it is
\* 1; and a run that stops inside a clause stops because the clause's variable
\* was not fuzzified or its degree is None, never because of its operator.
FiringStrengthIsLeftFold ==
    /\ (pc = "rule" /\ r <= Len(rules)) =>
          /\ min_degree = LeftFold(rules[r].in_vars, k - 1)
          /\ (k = 2 /\ rules[r].in_vars[1][3] = "or") => min_degree = One
    /\ (pc = "done" /\ FuzzificationSucceeded /\ r <= Len(rules)) =>
          /\ k <= Len(rules[r].in_vars)
          /\ outcome \in { "KeyError", "TypeError" }
          /\ \/ ~Has(fuzzified_values, rules[r].in_vars[k][1])
             \/ ClauseDegree(rules[r].in_vars[k]) = NoneVal

\* A rule led by or has been folded over both of its clauses to a strength
\* strictly between 0 and 1, and a clause with an unknown operator was taken.
FiringStrengthWitness ==
    /\ pc = "rule"
    /\ r <= Len(rules)
    /\ k = 3
    /\ rules[r].in_vars[1][3] = "or"
    /\ rules[r].in_vars[2][3] = "and_not"
    /\ RLt(Zero, min_degree)
    /\ RLt(min_degree, One)
    /\ "unknown_operator" \in printed

\* The firing strength of a rule under the fuzzified values of the state.
Strength(rule) == LeftFold(rule.in_vars, Len(rule.in_vars))

\* The rules in the order p, merged one after the other as AggregateStep does.
RECURSIVE AggregateAll(_, _)
AggregateAll(p, n) ==
    IF n = 0 THEN << >>
    ELSE Aggregate(AggregateAll(p, n - 1), rules[p[n]].out_var,
                   rules[p[n]].out_set, Strength(rules[p[n]]))

Permutations(n) ==
    { p \in [ 1 .. n -> 1 .. n ] : \A a, b \in 1 .. n : a # b => p[a] # p[b] }

\* A mapping of mappings as the set of its (key, key, value) triples.
Triples(od) ==
    UNION { { << od[a][1], od[a][2][b][1], od[a][2][b][2] >> : b \in DOMAIN od[a][2] }
            : a \in DOMAIN od }

Concluding(out_var, out_set) ==
    { j \in DOMAIN rules : rules[j].out_var = out_var /\ rules[j].out_set = out_set }

\* C4: when every rule has been evaluated, the aggregated degrees are those of
\* every permutation of the rule sequence, the pairs aggregated are the pairs
\* some rule concludes, and the degree of a pair is the maximum of the firing
\* strengths of the rules concluding it.
AggregationIsMaxInAnyOrder ==
    InferenceComplete =>
      /\ \A p \in Permutations(Len(rules)) :
           Triples(AggregateAll(p, Len(rules))) = Triples(inferred_outputs)
      /\ { << t[1], t[2] >> : t \in Triples(inferred_outputs) }
           = { << rules[j].out_var, rules[j].out_set >> : j \in DOMAIN rules }
      /\ \A t \in Triples(inferred_outputs) :
           /\ \E j \in Concluding(t[1], t[2]) : Strength(rules[j]) = t[3]
           /\ \A j \in Concluding(t[1], t[2]) : RLe(Strength(rules[j]), t[3])

\* Two rules conclude the same pair, the earlier with the larger strength.
AggregationWitness ==
    /\ InferenceComplete
    /\ Len(rules) >= 2
    /\ rules[1].out_var = rules[2].out_var
    /\ rules[1].out_set = rules[2].out_set
    /\ RLt(Strength(rules[2]), Strength(rules[1]))

\* C5: a trapezoid with a <= b <= c <= d, equal neighbours included, fuzzifies
\* b and c to 1.
TrapezoidPlateauIsOne ==
    \A j \in DOMAIN crisp_values :
      LET var_name == crisp_values[j][1]
          x == crisp_values[j][2]
      IN  (FuzzificationSucceeded \/ pc = "done") /\ var_name \in DOMAIN variables =>
            \A n \in DOMAIN variables[var_name].fuzzy_sets :
              LET fs == variables[var_name].fuzzy_sets[n][2]
                  v == fs.values
              IN  ( /\ fs.type = "TRAP"
                    /\ Len(v) = 4
                    /\ v[1] <= v[2] /\ v[2] <= v[3] /\ v[3] <= v[4]
                    /\ x \in { v[2], v[3] } )
                  => /\ Has(fuzzified_values, var_name)
                     /\ GetOr(Get(fuzzified_values, var_name), fs.name, NoneVal) = One

\* C6: a membership function with valid parameters fuzzifies every crisp value
\* to a degree in [0, 1], and to 0 outside [a, c] or [a, d].
DegreeInUnitInterval ==
    \A j \in DOMAIN crisp_values :
      LET var_name == crisp_values[j][1]
          x == crisp_values[j][2]
      IN  (FuzzificationSucceeded \/ pc = "done") /\ var_name \in DOMAIN variables =>
            \A n \in DOMAIN variables[var_name].fuzzy_sets :
              LET fs == variables[var_name].fuzzy_sets[n][2]
                  v == fs.values
              IN  ValidParameters(fs)
                  => /\ Has(fuzzified_values, var_name)
                     /\ Has(Get(fuzzified_values, var_name), fs.name)
                     /\ LET degree == Get(Get(fuzzified_values, var_name), fs.name)
                        IN  /\ degree # NoneVal
                            /\ RLe(Zero, degree)
                            /\ RLe(degree, One)
                            /\ (x < v[1] \/ x > v[Len(v)]) => degree = Zero

\* C7: the system never holds a fuzzy set whose number of parameters is not
\* that of its shape: the call that would add it is rejected.
NoMalformedFuzzySet ==
    \A n \in DOMAIN variables :
      \A j \in DOMAIN variables[n].fuzzy_sets :
        LET fs == variables[n].fuzzy_sets[j][2]
        IN  /\ fs.type = "TRI" => Len(fs.values) = 3
            /\ fs.type = "TRAP" => Len(fs.values) = 4

\* The arithmetic mean of the parameters of a fuzzy set.
Mean(fs) == Norm(Sum(fs.values), Len(fs.values))

RECURSIVE DegreeSum(_)
DegreeSum(output) ==
    IF output = << >> THEN Zero ELSE RAdd(output[1][2], DegreeSum(Tail(output)))

RECURSIVE WeightedSum(_, _)
WeightedSum(fuzzy_sets, output) ==
    IF output = << >> THEN Zero
    ELSE RAdd(RMul(output[1][2], Mean(Get(fuzzy_sets, output[1][1]))),
              WeightedSum(fuzzy_sets, Tail(output)))

\* C8: the results a run returns hold every output variable some rule
\* concludes; its value is 0 when its aggregated degrees sum to 0 and otherwise
\* sum(degree * mean of the set's parameters) / sum(degree).
DefuzzifiedResults ==
    (pc = "done" /\ outcome = "return") =>
      /\ Keys(results) = { rules[j].out_var : j \in DOMAIN rules }
      /\ \A n \in DOMAIN inferred_outputs :
           LET var_name == inferred_outputs[n][1]
               output == inferred_outputs[n][2]
               total == DegreeSum(output)
           IN  /\ Has(results, var_name)
               /\ Get(results, var_name) =
                    IF total = Zero THEN Zero
                    ELSE RDiv(WeightedSum(variables[var_name].fuzzy_sets, output), total)

\* A run has returned 0 for an output variable none of whose rules fired.
DefuzzifiedZeroWitness ==
    /\ pc = "done"
    /\ outcome = "return"
    /\ inferred_outputs # << >>
    /\ DegreeSum(inferred_outputs[1][2]) = Zero
    /\ Get(results, inferred_outputs[1][1]) = Zero

\* C9: no step of a run changes the variables, their fuzzy sets or the rules.
RunNeverMutatesModel ==
    [][(pc # "idle" \/ pc' # "idle") => (variables' = variables /\ rules' = rules)]_vars

\* A run over a system of two rules has returned a result that is not 0.
RunOverModelWitness ==
    /\ pc = "done"
    /\ outcome = "return"
    /\ Len(rules) >= 2
    /\ \E n \in DOMAIN results : results[n][2] # Zero

ScaleFactors == { Norm(1, 2), Norm(2, 1), Norm(3, 1) }

Scaled(output, factor) ==
    [ j \in DOMAIN output |-> << output[j][1], RMul(output[j][2], factor) >> ]

\* C10: for an output variable whose aggregated degrees have a positive sum,
\* defuzzifying the degrees all multiplied by one positive factor gives the
\* result of defuzzifying the degrees themselves.
DefuzzifyIsScaleConsistent ==
    InferenceComplete =>
      \A n \in DOMAIN inferred_outputs, factor \in ScaleFactors :
        LET var_name == inferred_outputs[n][1]
            output == inferred_outputs[n][2]
            plain == DefuzzifyVariable(variables, var_name, output)
        IN  (plain.kind = "ok" /\ RLt(Zero, DegreeSum(output)))
            => DefuzzifyVariable(variables, var_name, Scaled(output, factor)) = plain

\* An output variable has two sets with different positive degrees, and its
\* defuzzification succeeds.
ScaleConsistentWitness ==
    /\ InferenceComplete
    /\ inferred_outputs # << >>
    /\ Len(inferred_outputs[1][2]) = 2
    /\ RLt(Zero, inferred_outputs[1][2][1][2])
    /\ RLt(inferred_outputs[1][2][1][2], inferred_outputs[1][2][2][2])
    /\ DefuzzifyVariable(variables, inferred_outputs[1][1], inferred_outputs[1][2]).kind = "ok"

====
